---- MODULE Spec2Model ----
(***************************************************************************)
(* A model of the Linux I2C device handle of rust-i2cdev (src/core.rs):    *)
(* the I2CDevice struct, its constructor, the address bind, the raw        *)
(* Read/Write pass-through and the I2CSMBus methods, over a model of the   *)
(* kernel side (descriptor table, bound slave address per open file, a     *)
(* register store per slave address) and of the ffi layer the methods      *)
(* call.  Every kernel call an operation makes is logged in kernel.calls,  *)
(* and the operation and what it returned are recorded in last.            *)
(***************************************************************************)
EXTENDS Integers, Sequences, FiniteSets, TLC

\* ---------------------------------------------------------------- bounds
MaxAddr == 1            \* slave addresses are 0..MaxAddr
MaxFd == 2              \* size of the process's descriptor table
MaxBuf == 2             \* length of the raw read/write buffers

Addr == 0..MaxAddr
DeviceAddrs == 1..MaxAddr           \* address 0 is the general call address: no device behind it
Fd == 1..MaxFd
Registers == {0, 1}
ByteVals == {171}                   \* 0xAB
WordVals == {4779}                  \* 0x12AB: high byte 0x12, low byte 0xAB
BlockVals == {<<171, 18>>}
BufLens == {MaxBuf}

Unbound == 0 - 1                    \* no address bound on an open file yet
OpenOutcomes == {"ok", "ENOENT"}
IoctlOutcomes == {"ok", "ENXIO", "EIO"}
IoOutcomes == {"ok", "EIO"}

Consumers == {1, 2}
NoIntent == 0 - 1

VARIABLES handle, kernel, last, written, lockMode, lock, intent

vars == <<handle, kernel, last, written, lockMode, lock, intent>>

\* ---------------------------------------------------------------- values
NoHandle == [devfile |-> 0, slave_address |-> 0]

\* Result<T, E>: Ok(v) or Err(e); a value is kept as a sequence of numbers
\* tagged with its type, an error as its wrapping type and the errno.
Ok(ty, v) == [ok |-> TRUE, ty |-> ty, val |-> v, errty |-> "none", errno |-> "none"]

Err(errty, errno) == [ok |-> FALSE, ty |-> "none", val |-> <<>>, errty |-> errty, errno |-> errno]

NixResult(res, ty, v) == IF res = "ok" THEN Ok(ty, v) ELSE Err("nix", res)

\* One logged kernel call.
Call(call, fd, addr, rw, size, command, data, res, n) ==
    [call |-> call, fd |-> fd, addr |-> addr, rw |-> rw, size |-> size,
     command |-> command, data |-> data, res |-> res, n |-> n]

Logged(k, c) == [k EXCEPT !.calls = Append(@, c)]

\* The kernel state at the start of an operation: the log holds the calls of
\* the operation in progress only.
Enter(k) == [k EXCEPT !.calls = <<>>]

\* ------------------------------------------------- bytes of a 16-bit word
LowByte(w) == w % 256

HighByte(w) == (w \div 256) % 256

WordBytes(w) == <<LowByte(w), HighByte(w)>>

ByteAt(s, i) == IF Len(s) >= i THEN s[i] ELSE 0

WordOf(s) == ByteAt(s, 1) + 256 * ByteAt(s, 2)

\* ------------------------------------------------------------ file layer
\* open(2) for read and write: the lowest free descriptor, or an error.
sys_open(k, out) ==
    LET free == Fd \ k.openFds
        res == IF out # "ok" THEN out ELSE IF free = {} THEN "EMFILE" ELSE "ok"
        fd == IF res = "ok" THEN CHOOSE f \in free : \A g \in free : f <= g ELSE 0
        k1 == Logged(k, Call("open", fd, Unbound, "none", "none", 0, <<>>, res, 0))
    IN  [kernel |-> IF res = "ok"
                    THEN [k1 EXCEPT !.openFds = @ \cup {fd}, !.bound[fd] = Unbound]
                    ELSE k1,
         fd |-> fd, res |-> res]

\* close(2), as the drop of the owned File makes it.
sys_close(k, fd) ==
    LET res == IF fd \in k.openFds THEN "ok" ELSE "EBADF"
        k1 == Logged(k, Call("close", fd, Unbound, "none", "none", 0, <<>>, res, 0))
    IN  [k1 EXCEPT !.openFds = @ \ {fd}]

\* read(2) / write(2) on the file: one call, at most len bytes transferred.
sys_io(k, call, fd, len, out, n) ==
    LET res == IF fd \notin k.openFds THEN "EBADF" ELSE out
        cnt == IF res = "ok" THEN (IF n <= len THEN n ELSE len) ELSE 0
    IN  [kernel |-> Logged(k, Call(call, fd, k.bound[fd], "none", "none", 0, <<>>, res, cnt)),
         res |-> res, n |-> cnt]

\* ------------------------------------------------------------- ffi layer
\* The address-bind ioctl: on success the open file is bound to addr.
i2c_set_slave_address(k, fd, addr, out) ==
    LET res == IF fd \notin k.openFds THEN "EBADF" ELSE out
        k1 == Logged(k, Call("I2C_SLAVE", fd, addr, "none", "none", 0, <<>>, res, 0))
    IN  [kernel |-> IF res = "ok" THEN [k1 EXCEPT !.bound[fd] = addr] ELSE k1,
         ret |-> NixResult(res, "unit", <<>>)]

\* What the device at the bound address answers to a read-class request.
DeviceAnswer(cell, size, data) ==
    CASE size = "BYTE" -> <<ByteAt(cell, 1)>>
      [] size = "BYTE_DATA" -> <<ByteAt(cell, 1)>>
      [] size = "WORD_DATA" -> WordBytes(WordOf(cell))
      [] size = "PROC_CALL" -> WordBytes((WordOf(data) + 1) % 65536)
      [] size = "BLOCK_DATA" -> cell
      [] OTHER -> <<>>

\* One I2C_SMBUS ioctl: a single transaction against the address bound on
\* fd.  It either completes as a whole or fails and changes nothing; with
\* no device at the bound address it fails with ENXIO.
i2c_smbus_access(k, fd, rw, command, size, data, out) ==
    LET addr == IF fd \in k.openFds THEN k.bound[fd] ELSE Unbound
        res == IF fd \notin k.openFds THEN "EBADF"
               ELSE IF out = "ok" /\ addr \notin DeviceAddrs THEN "ENXIO" ELSE out
        reg == IF size = "BYTE" THEN 0 ELSE command
        cell == IF res = "ok" THEN k.store[addr][reg] ELSE <<>>
        writes == res = "ok" /\ (size = "PROC_CALL" \/ (rw = "write" /\ size \notin {"QUICK", "BYTE"}))
        k1 == Logged(k, Call("I2C_SMBUS", fd, addr, rw, size, command, data, res, 0))
    IN  [kernel |-> IF writes THEN [k1 EXCEPT !.store[addr][command] = data] ELSE k1,
         res |-> res,
         data |-> IF res = "ok" /\ (rw = "read" \/ size = "PROC_CALL")
                  THEN DeviceAnswer(cell, size, data) ELSE <<>>]

i2c_smbus_write_quick(k, fd, bit, out) ==
    LET r == i2c_smbus_access(k, fd, IF bit THEN "read" ELSE "write", 0, "QUICK", <<>>, out)
    IN  [kernel |-> r.kernel, ret |-> NixResult(r.res, "unit", <<>>)]

i2c_smbus_read_byte(k, fd, out) ==
    LET r == i2c_smbus_access(k, fd, "read", 0, "BYTE", <<>>, out)
    IN  [kernel |-> r.kernel, ret |-> NixResult(r.res, "u8", <<ByteAt(r.data, 1)>>)]

i2c_smbus_write_byte(k, fd, value, out) ==
    LET r == i2c_smbus_access(k, fd, "write", value, "BYTE", <<>>, out)
    IN  [kernel |-> r.kernel, ret |-> NixResult(r.res, "unit", <<>>)]

i2c_smbus_read_byte_data(k, fd, register, out) ==
    LET r == i2c_smbus_access(k, fd, "read", register, "BYTE_DATA", <<>>, out)
    IN  [kernel |-> r.kernel, ret |-> NixResult(r.res, "u8", <<ByteAt(r.data, 1)>>)]

i2c_smbus_write_byte_data(k, fd, register, value, out) ==
    LET r == i2c_smbus_access(k, fd, "write", register, "BYTE_DATA", <<value % 256>>, out)
    IN  [kernel |-> r.kernel, ret |-> NixResult(r.res, "unit", <<>>)]

i2c_smbus_read_word_data(k, fd, register, out) ==
    LET r == i2c_smbus_access(k, fd, "read", register, "WORD_DATA", <<>>, out)
    IN  [kernel |-> r.kernel, ret |-> NixResult(r.res, "u16", <<WordOf(r.data)>>)]

i2c_smbus_write_word_data(k, fd, register, value, out) ==
    LET r == i2c_smbus_access(k, fd, "write", register, "WORD_DATA", WordBytes(value), out)
    IN  [kernel |-> r.kernel, ret |-> NixResult(r.res, "unit", <<>>)]

i2c_smbus_process_call(k, fd, register, value, out) ==
    LET r == i2c_smbus_access(k, fd, "write", register, "PROC_CALL", WordBytes(value), out)
    IN  [kernel |-> r.kernel, ret |-> NixResult(r.res, "u16", <<WordOf(r.data)>>)]

i2c_smbus_read_block_data(k, fd, register, out) ==
    LET r == i2c_smbus_access(k, fd, "read", register, "BLOCK_DATA", <<>>, out)
    IN  [kernel |-> r.kernel, ret |-> NixResult(r.res, "vec", r.data)]

i2c_smbus_write_block_data(k, fd, register, values, out) ==
    LET r == i2c_smbus_access(k, fd, "write", register, "BLOCK_DATA", values, out)
    IN  [kernel |-> r.kernel, ret |-> NixResult(r.res, "unit", <<>>)]

i2c_smbus_write_i2c_block_data(k, fd, register, values, out) ==
    LET r == i2c_smbus_access(k, fd, "write", register, "I2C_BLOCK", values, out)
    IN  [kernel |-> r.kernel, ret |-> NixResult(r.res, "unit", <<>>)]

\* ------------------------------------------------------------- I2CDevice
as_raw_fd(self) == self.devfile

\* Variant: the field is assigned before the ioctl's result is examined.
set_slave_address_eager(self, k, slave_address, out) ==
    LET r == i2c_set_slave_address(k, as_raw_fd(self), slave_address, out)
    IN  [self |-> [self EXCEPT !.slave_address = slave_address],
         kernel |-> r.kernel,
         ret |-> IF r.ret.ok THEN Ok("unit", <<>>) ELSE r.ret]

\* Variant: the ioctl's result is discarded and Ok(()) is returned.
set_slave_address_unchecked(self, k, slave_address, out) ==
    LET r == i2c_set_slave_address(k, as_raw_fd(self), slave_address, out)
    IN  [self |-> IF r.ret.ok THEN [self EXCEPT !.slave_address = slave_address] ELSE self,
         kernel |-> r.kernel,
         ret |-> Ok("unit", <<>>)]

set_slave_address(self, k, slave_address, out) ==
    LET r == i2c_set_slave_address(k, as_raw_fd(self), slave_address, out)
    IN  IF ~r.ret.ok
        THEN [self |-> self, kernel |-> r.kernel, ret |-> r.ret]
        ELSE [self |-> [self EXCEPT !.slave_address = slave_address],
              kernel |-> r.kernel, ret |-> Ok("unit", <<>>)]

\* Variant: the descriptor is released from the File without being closed.
drop_forgotten(self, k) == k

\* The owned File is closed when the I2CDevice goes out of scope.
drop(self, k) == sys_close(k, self.devfile)

\* Variant: the device is returned with the placeholder, the bind never made.
new_unbound(k, slave_address, openOut, bindOut) ==
    LET o == sys_open(k, openOut)
    IN  IF o.res # "ok"
        THEN [self |-> NoHandle, kernel |-> o.kernel, ret |-> Err("IOError", o.res)]
        ELSE [self |-> [devfile |-> o.fd, slave_address |-> 0],
              kernel |-> o.kernel, ret |-> Ok("I2CDevice", <<>>)]

\* Variant: a rejected bind is wrapped in the I/O variant.
new_one_category(k, slave_address, openOut, bindOut) ==
    LET o == sys_open(k, openOut)
    IN  IF o.res # "ok"
        THEN [self |-> NoHandle, kernel |-> o.kernel, ret |-> Err("IOError", o.res)]
        ELSE LET device == [devfile |-> o.fd, slave_address |-> 0]
                 b == set_slave_address(device, o.kernel, slave_address, bindOut)
             IN  IF ~b.ret.ok
                 THEN [self |-> NoHandle, kernel |-> drop(b.self, b.kernel),
                       ret |-> Err("IOError", b.ret.errno)]
                 ELSE [self |-> b.self, kernel |-> b.kernel, ret |-> Ok("I2CDevice", <<>>)]

new(k, slave_address, openOut, bindOut) ==
    LET o == sys_open(k, openOut)
    IN  IF o.res # "ok"
        THEN [self |-> NoHandle, kernel |-> o.kernel, ret |-> Err("IOError", o.res)]
        ELSE LET device == [devfile |-> o.fd, slave_address |-> 0]
                 b == set_slave_address(device, o.kernel, slave_address, bindOut)
             IN  IF ~b.ret.ok
                 THEN [self |-> NoHandle, kernel |-> drop(b.self, b.kernel),
                       ret |-> Err("NixError", b.ret.errno)]
                 ELSE [self |-> b.self, kernel |-> b.kernel, ret |-> Ok("I2CDevice", <<>>)]

\* Variant: a short read is followed by a second read for the rest.
read_to_fill(self, k, len, out, n) ==
    LET r == sys_io(k, "read", self.devfile, len, out, n)
        q == sys_io(r.kernel, "read", self.devfile, len - r.n, out, len - r.n)
    IN  IF r.res = "ok" /\ r.n < len
        THEN [kernel |-> q.kernel, ret |-> Ok("usize", <<r.n + q.n>>)]
        ELSE [kernel |-> r.kernel,
              ret |-> IF r.res = "ok" THEN Ok("usize", <<r.n>>) ELSE Err("io", r.res)]

read(self, k, len, out, n) ==
    LET r == sys_io(k, "read", self.devfile, len, out, n)
    IN  [kernel |-> r.kernel,
         ret |-> IF r.res = "ok" THEN Ok("usize", <<r.n>>) ELSE Err("io", r.res)]

write(self, k, len, out, n) ==
    LET r == sys_io(k, "write", self.devfile, len, out, n)
    IN  [kernel |-> r.kernel,
         ret |-> IF r.res = "ok" THEN Ok("usize", <<r.n>>) ELSE Err("io", r.res)]

\* File::flush has nothing to flush: no kernel call.
flush(self, k) == [kernel |-> k, ret |-> Ok("unit", <<>>)]

smbus_write_quick(self, k, bit, out) == i2c_smbus_write_quick(k, as_raw_fd(self), bit, out)

smbus_read_byte(self, k, out) == i2c_smbus_read_byte(k, as_raw_fd(self), out)

smbus_write_byte(self, k, value, out) == i2c_smbus_write_byte(k, as_raw_fd(self), value, out)

smbus_read_byte_data(self, k, register, out) ==
    i2c_smbus_read_byte_data(k, as_raw_fd(self), register, out)

smbus_write_byte_data(self, k, register, value, out) ==
    i2c_smbus_write_byte_data(k, as_raw_fd(self), register, value, out)

\* Variant: a failed request yields the word 0.
smbus_read_word_data_or_zero(self, k, register, out) ==
    LET r == i2c_smbus_read_word_data(k, as_raw_fd(self), register, out)
    IN  [kernel |-> r.kernel, ret |-> IF r.ret.ok THEN r.ret ELSE Ok("u16", <<0>>)]

smbus_read_word_data(self, k, register, out) ==
    i2c_smbus_read_word_data(k, as_raw_fd(self), register, out)

\* Variant: the word is sent with its two bytes exchanged.
smbus_write_word_data_swapped(self, k, register, value, out) ==
    i2c_smbus_write_word_data(k, as_raw_fd(self), register,
                              HighByte(value) + 256 * LowByte(value), out)

smbus_write_word_data(self, k, register, value, out) ==
    i2c_smbus_write_word_data(k, as_raw_fd(self), register, value, out)

\* Variant: a word write followed by a word read, two requests.
smbus_process_word_split(self, k, register, value, out) ==
    LET w == i2c_smbus_write_word_data(k, as_raw_fd(self), register, value, out)
        r == i2c_smbus_read_word_data(w.kernel, as_raw_fd(self), register, out)
    IN  IF w.ret.ok THEN r ELSE [kernel |-> w.kernel, ret |-> Err("nix", w.ret.errno)]

smbus_process_word(self, k, register, value, out) ==
    i2c_smbus_process_call(k, as_raw_fd(self), register, value, out)

smbus_read_block_data(self, k, register, out) ==
    i2c_smbus_read_block_data(k, as_raw_fd(self), register, out)

smbus_write_block_data(self, k, register, values, out) ==
    i2c_smbus_write_block_data(k, as_raw_fd(self), register, values, out)

\* Variant: a block process call, which reads a response block back.
smbus_process_block_call(self, k, register, values, out) ==
    LET r == i2c_smbus_access(k, as_raw_fd(self), "write", register, "BLOCK_PROC_CALL", values, out)
    IN  [kernel |-> r.kernel, ret |-> NixResult(r.res, "vec", values)]

smbus_process_block(self, k, register, values, out) ==
    i2c_smbus_write_i2c_block_data(k, as_raw_fd(self), register, values, out)

\* ------------------------------------------------------------ bookkeeping
\* The operation just completed: who called it, its arguments, its result.
Completed(op, by, addr, reg, val, ret) ==
    [op |-> op, by |-> by, addr |-> addr, reg |-> reg, val |-> val, ret |-> ret]

NoWrite == [kind |-> "none", val |-> 0]

Unwritten == [r \in Registers |-> NoWrite]

\* written[reg]: the byte or word last stored in reg by a successful
\* write_byte_data / write_word_data through the handle, provided no other
\* write to reg and no rebind has happened since.
WrittenAfter(w, reg, kind, val, ret) ==
    [w EXCEPT ![reg] = IF ret.ok /\ kind \in {"byte", "word"}
                       THEN [kind |-> kind, val |-> val] ELSE NoWrite]

Live == handle # NoHandle

SoleOwner == UNCHANGED <<lockMode, lock, intent>>

\* An SMBus method or raw I/O call r made on the live handle.
Finish(r, op, reg, val, w) ==
    /\ kernel' = r.kernel
    /\ last' = Completed(op, 0, handle.slave_address, reg, val, r.ret)
    /\ written' = w
    /\ UNCHANGED handle
    /\ SoleOwner

\* ---------------------------------------------------------------- actions
New ==
    /\ ~Live
    /\ \E a \in Addr, oo \in OpenOutcomes, bo \in IoctlOutcomes :
          LET r == new(Enter(kernel), a, oo, bo)
          IN  /\ handle' = r.self
              /\ kernel' = r.kernel
              /\ last' = Completed("new", 0, a, 0, <<>>, r.ret)
    /\ written' = Unwritten
    /\ SoleOwner

Drop ==
    /\ Live
    /\ handle' = NoHandle
    /\ kernel' = drop(handle, Enter(kernel))
    /\ last' = Completed("drop", 0, handle.slave_address, 0, <<>>, Ok("unit", <<>>))
    /\ written' = Unwritten
    /\ SoleOwner

SetSlaveAddress ==
    /\ Live
    /\ \E a \in Addr, out \in IoctlOutcomes :
          LET r == set_slave_address(handle, Enter(kernel), a, out)
          IN  /\ handle' = r.self
              /\ kernel' = r.kernel
              /\ last' = Completed("set_slave_address", 0, a, 0, <<>>, r.ret)
    /\ written' = Unwritten
    /\ SoleOwner

RawRead ==
    /\ Live
    /\ \E len \in BufLens, out \in IoOutcomes, n \in 0..MaxBuf :
          /\ n <= len
          /\ out # "ok" => n = 0
          /\ Finish(read(handle, Enter(kernel), len, out, n), "read", 0, <<len>>, written)

RawWrite ==
    /\ Live
    /\ \E len \in BufLens, out \in IoOutcomes, n \in 0..MaxBuf :
          /\ n <= len
          /\ out # "ok" => n = 0
          /\ Finish(write(handle, Enter(kernel), len, out, n), "write", 0, <<len>>, Unwritten)

Flush ==
    /\ Live
    /\ Finish(flush(handle, Enter(kernel)), "flush", 0, <<>>, written)

WriteQuick ==
    /\ Live
    /\ \E bit \in BOOLEAN, out \in IoctlOutcomes :
          Finish(smbus_write_quick(handle, Enter(kernel), bit, out),
                 "write_quick", 0, <<IF bit THEN 1 ELSE 0>>, written)

ReadByte ==
    /\ Live
    /\ \E out \in IoctlOutcomes :
          Finish(smbus_read_byte(handle, Enter(kernel), out), "read_byte", 0, <<>>, written)

WriteByte ==
    /\ Live
    /\ \E v \in ByteVals, out \in IoctlOutcomes :
          Finish(smbus_write_byte(handle, Enter(kernel), v, out), "write_byte", 0, <<v>>, written)

ReadByteData ==
    /\ Live
    /\ \E reg \in Registers, out \in IoctlOutcomes :
          Finish(smbus_read_byte_data(handle, Enter(kernel), reg, out),
                 "read_byte_data", reg, <<>>, written)

WriteByteData ==
    /\ Live
    /\ \E reg \in Registers, v \in ByteVals, out \in IoctlOutcomes :
          LET r == smbus_write_byte_data(handle, Enter(kernel), reg, v, out)
          IN  Finish(r, "write_byte_data", reg, <<v>>, WrittenAfter(written, reg, "byte", v, r.ret))

ReadWordData ==
    /\ Live
    /\ \E reg \in Registers, out \in IoctlOutcomes :
          Finish(smbus_read_word_data(handle, Enter(kernel), reg, out),
                 "read_word_data", reg, <<>>, written)

WriteWordData ==
    /\ Live
    /\ \E reg \in Registers, v \in WordVals, out \in IoctlOutcomes :
          LET r == smbus_write_word_data(handle, Enter(kernel), reg, v, out)
          IN  Finish(r, "write_word_data", reg, <<v>>, WrittenAfter(written, reg, "word", v, r.ret))

ProcessWord ==
    /\ Live
    /\ \E reg \in Registers, v \in WordVals, out \in IoctlOutcomes :
          LET r == smbus_process_word(handle, Enter(kernel), reg, v, out)
          IN  Finish(r, "process_word", reg, <<v>>, WrittenAfter(written, reg, "other", v, r.ret))

ReadBlockData ==
    /\ Live
    /\ \E reg \in Registers, out \in IoctlOutcomes :
          Finish(smbus_read_block_data(handle, Enter(kernel), reg, out),
                 "read_block_data", reg, <<>>, written)

WriteBlockData ==
    /\ Live
    /\ \E reg \in Registers, vs \in BlockVals, out \in IoctlOutcomes :
          LET r == smbus_write_block_data(handle, Enter(kernel), reg, vs, out)
          IN  Finish(r, "write_block_data", reg, vs, WrittenAfter(written, reg, "other", 0, r.ret))

ProcessBlock ==
    /\ Live
    /\ \E reg \in Registers, vs \in BlockVals, out \in IoctlOutcomes :
          LET r == smbus_process_block(handle, Enter(kernel), reg, vs, out)
          IN  Finish(r, "process_block", reg, vs, WrittenAfter(written, reg, "other", 0, r.ret))

NoKernel ==
    [openFds |-> {}, bound |-> [f \in Fd |-> Unbound],
     store |-> [a \in DeviceAddrs |-> [r \in Registers |-> <<>>]], calls |-> <<>>]

Init ==
    /\ handle = NoHandle
    /\ kernel = NoKernel
    /\ last = Completed("none", 0, 0, 0, <<>>, Ok("unit", <<>>))
    /\ written = Unwritten
    /\ lockMode = FALSE
    /\ lock = 0
    /\ intent = [c \in Consumers |-> NoIntent]

Next ==
    \/ New
    \/ Drop
    \/ SetSlaveAddress
    \/ RawRead
    \/ RawWrite
    \/ Flush
    \/ WriteQuick
    \/ ReadByte
    \/ WriteByte
    \/ ReadByteData
    \/ WriteByteData
    \/ ReadWordData
    \/ WriteWordData
    \/ ProcessWord
    \/ ReadBlockData
    \/ WriteBlockData
    \/ ProcessBlock

Spec == Init /\ [][Next]_vars

\* ------------------------------------------- two consumers of one handle
\* Two callers take turns on one handle.  intent[c] is the address consumer
\* c has bound and means its next transaction for.  With lockMode the
\* callers wrap every rebind-plus-transaction pair in their own mutex (lock);
\* without it they call the handle whenever they like.  The handle itself
\* takes no lock in either mode.
MayCall(c) == lockMode => lock = c

CAcquire(c) ==
    /\ lockMode
    /\ lock = 0
    /\ lock' = c
    /\ UNCHANGED <<handle, kernel, last, written, lockMode, intent>>

CRelease(c) ==
    /\ lockMode
    /\ lock = c
    /\ lock' = 0
    /\ intent' = [intent EXCEPT ![c] = NoIntent]
    /\ UNCHANGED <<handle, kernel, last, written, lockMode>>

CBind(c) ==
    /\ Live
    /\ MayCall(c)
    /\ \E a \in Addr, out \in IoctlOutcomes :
          LET r == set_slave_address(handle, Enter(kernel), a, out)
          IN  /\ handle' = r.self
              /\ kernel' = r.kernel
              /\ last' = Completed("set_slave_address", c, a, 0, <<>>, r.ret)
              /\ intent' = [intent EXCEPT ![c] = IF r.ret.ok THEN a ELSE NoIntent]
    /\ written' = Unwritten
    /\ UNCHANGED <<lockMode, lock>>

CTransact(c) ==
    /\ Live
    /\ MayCall(c)
    /\ intent[c] # NoIntent
    /\ \E reg \in Registers, out \in IoctlOutcomes :
          LET r == smbus_read_byte_data(handle, Enter(kernel), reg, out)
          IN  /\ kernel' = r.kernel
              /\ last' = Completed("read_byte_data", c, intent[c], reg, <<>>, r.ret)
    /\ UNCHANGED <<handle, written, lockMode, lock, intent>>

InitShared ==
    /\ \E a \in Addr :
          LET r == new(NoKernel, a, "ok", "ok")
          IN  /\ handle = r.self
              /\ kernel = r.kernel
              /\ last = Completed("new", 0, a, 0, <<>>, r.ret)
    /\ written = Unwritten
    /\ lockMode \in BOOLEAN
    /\ lock = 0
    /\ intent = [c \in Consumers |-> NoIntent]

NextShared ==
    \/ \E c \in Consumers : CAcquire(c)
    \/ \E c \in Consumers : CRelease(c)
    \/ \E c \in Consumers : CBind(c)
    \/ \E c \in Consumers : CTransact(c)

SpecShared == InitShared /\ [][NextShared]_vars

\* ------------------------------------------------------------ properties
SmbusOps ==
    {"write_quick", "read_byte", "write_byte", "read_byte_data", "write_byte_data",
     "read_word_data", "write_word_data", "process_word", "read_block_data",
     "write_block_data", "process_block"}

Calls == kernel.calls

NoCloseIn(cs) == \A i \in 1..Len(cs) : cs[i].call # "close"

\* C1: while a handle exists, its recorded slave_address is the address the
\* kernel last accepted in a bind ioctl on the handle's descriptor; straight
\* after new it is the address passed to new, not the placeholder 0.
AddressMatchesKernel ==
    Live =>
        /\ handle.devfile \in kernel.openFds
        /\ handle.slave_address = kernel.bound[handle.devfile]
        /\ last.op = "new" => handle.slave_address = last.addr

ConstructedAtNonzeroAddress ==
    /\ Live
    /\ last.op = "new"
    /\ last.addr # 0
    /\ handle.slave_address = last.addr

\* C2: a set_slave_address(a) whose ioctl succeeds leaves a recorded; one
\* whose ioctl fails returns the kernel's error and leaves the recorded
\* address and the owned descriptor as they were before the call.
RebindUpdatesOrLeaves ==
    [][last'.op = "set_slave_address" =>
          /\ Len(kernel'.calls) = 1
          /\ kernel'.calls[1].call = "I2C_SLAVE"
          /\ kernel'.calls[1].addr = last'.addr
          /\ last'.ret.ok <=> kernel'.calls[1].res = "ok"
          /\ IF kernel'.calls[1].res = "ok"
             THEN /\ handle'.slave_address = last'.addr
                  /\ handle'.devfile = handle.devfile
             ELSE /\ handle' = handle
                  /\ kernel'.openFds = kernel.openFds
                  /\ last'.ret = Err("nix", kernel'.calls[1].res)]_vars

FailedRebindKeepsAddress ==
    /\ Live
    /\ last.op = "set_slave_address"
    /\ ~last.ret.ok
    /\ last.addr # handle.slave_address

\* C3: new fails with IOError exactly when the open failed, and then no
\* bind ioctl was issued; it fails with NixError exactly when the open
\* succeeded and the kernel rejected the address; a failed new returns no
\* handle.
OpenErrorNamesFailedStep ==
    last.op = "new" =>
        /\ Len(Calls) >= 1
        /\ Calls[1].call = "open"
        /\ last.ret.ok \/ last.ret.errty \in {"IOError", "NixError"}
        /\ last.ret.errty = "IOError" <=> Calls[1].res # "ok"
        /\ last.ret.errty = "IOError" => Len(Calls) = 1 /\ last.ret.errno = Calls[1].res
        /\ last.ret.errty = "NixError" <=>
              /\ Calls[1].res = "ok"
              /\ Len(Calls) >= 2
              /\ Calls[2].call = "I2C_SLAVE"
              /\ Calls[2].res # "ok"
        /\ last.ret.errty = "NixError" => last.ret.errno = Calls[2].res
        /\ ~last.ret.ok => ~Live

RejectedAddressIsNixError ==
    /\ last.op = "new"
    /\ last.ret.errty = "NixError"
    /\ Calls[1].res = "ok"

\* C4: every open descriptor is owned by the handle; a new that opened the
\* file and then failed to bind has closed that descriptor before returning;
\* dropping the handle closes its descriptor once; no other operation closes
\* it and no kernel call is ever made on a closed descriptor.
FileReleasedOnEveryPath ==
    /\ kernel.openFds = (IF Live THEN {handle.devfile} ELSE {})
    /\ \A i \in 1..Len(Calls) : Calls[i].res # "EBADF"
    /\ (last.op = "new" /\ ~last.ret.ok /\ Calls[1].res = "ok") =>
          /\ Len(Calls) = 3
          /\ Calls[3].call = "close"
          /\ Calls[3].fd = Calls[1].fd
          /\ Calls[3].res = "ok"
    /\ (last.op = "new" /\ last.ret.ok) => NoCloseIn(Calls)
    /\ last.op = "drop" =>
          /\ Len(Calls) = 1
          /\ Calls[1].call = "close"
          /\ Calls[1].res = "ok"
          /\ Calls[1].fd \notin kernel.openFds
    /\ last.op \notin {"new", "drop"} => NoCloseIn(Calls)

FailedBindClosedTheFile ==
    /\ last.op = "new"
    /\ ~last.ret.ok
    /\ Len(Calls) = 3
    /\ Calls[3].call = "close"
    /\ kernel.openFds = {}

\* C5: an SMBus method call issues exactly one I2C_SMBUS request, on the
\* handle's descriptor and against the slave address bound on it, whether the
\* request succeeds or fails.
OneRequestPerSmbusCall ==
    last.op \in SmbusOps =>
        /\ Live
        /\ Len(Calls) = 1
        /\ Calls[1].call = "I2C_SMBUS"
        /\ Calls[1].fd = handle.devfile
        /\ Calls[1].addr = kernel.bound[handle.devfile]
        /\ Calls[1].addr = handle.slave_address

FailedProcessWordNotRetried ==
    /\ last.op = "process_word"
    /\ ~last.ret.ok
    /\ Len(Calls) = 1

\* C6: when the kernel fails the request of an SMBus method, the method
\* returns that error, as a nix error, and never a success value.
KernelErrorReturnedUnchanged ==
    last.op \in SmbusOps =>
        \A i \in 1..Len(Calls) :
            (Calls[i].call = "I2C_SMBUS" /\ Calls[i].res # "ok") =>
                last.ret = Err("nix", Calls[i].res)

FailedReadWordReturnsEIO ==
    /\ last.op = "read_word_data"
    /\ Len(Calls) = 1
    /\ Calls[1].res = "EIO"
    /\ last.ret = Err("nix", "EIO")

RegisterRoundTrip ==
    /\ (last.op = "read_word_data" /\ last.ret.ok /\ written[last.reg].kind = "word") =>
          last.ret.val = <<written[last.reg].val>>
    /\ (last.op = "read_byte_data" /\ last.ret.ok /\ written[last.reg].kind = "byte") =>
          last.ret.val = <<written[last.reg].val>>

WordReadBackAfterWrite ==
    /\ last.op = "read_word_data"
    /\ last.ret.ok
    /\ written[last.reg].kind = "word"
    /\ written[last.reg].val \in WordVals
    /\ \E r \in Registers : r # last.reg /\ written[r].kind = "byte"

\* C9: a raw read or write makes exactly one read or write call on the file
\* and returns the count that call transferred, also when it is less than
\* the buffer holds; an error of the call is returned as an error.
RawIoIsOneCall ==
    last.op \in {"read", "write"} =>
        /\ Len(Calls) = 1
        /\ Calls[1].call = last.op
        /\ Calls[1].fd = handle.devfile
        /\ Calls[1].res = "ok" => last.ret = Ok("usize", <<Calls[1].n>>)
        /\ Calls[1].res # "ok" => last.ret = Err("io", Calls[1].res)

ShortReadReturned ==
    /\ last.op = "read"
    /\ last.ret.ok
    /\ last.ret.val[1] < last.val[1]
    /\ Len(Calls) = 1

\* C10: a transaction that executes against an address other than the one
\* its caller bound happens only when the callers do not wrap their
\* rebind-plus-transaction pairs in a mutex, and without the mutex it does
\* happen: the handle itself does no locking.
Misdirected ==
    /\ last.by \in Consumers
    /\ last.op \in SmbusOps
    /\ Len(Calls) >= 1
    /\ Calls[1].addr # last.addr

MisdirectedOnlyWithoutExclusion == Misdirected => ~lockMode

RaceMisdirectsTransaction ==
    /\ Misdirected
    /\ ~lockMode
    /\ \E c \in Consumers : c # last.by /\ intent[c] = Calls[1].addr

====
